---- MODULE Spec2Model ----
(***************************************************************************)
(* Model of afstand_tool.py: the retrying HTTP wrapper safe_get, the two   *)
(* memoised clients geocode_city and route_osrm_km_minutes, and the button *)
(* handler that geocodes the input, routes to the three fixed locations,   *)
(* falls back to the haversine estimate, filters, sorts and reports.       *)
(*                                                                         *)
(* Representation.                                                         *)
(*  - Python's None is the empty tuple << >>; a present value v is <<v>>,  *)
(*    and the tuples (lat, lon) and (km, minutes) are 2-tuples.            *)
(*  - Text is a tuple of one-character strings.                            *)
(*  - Degrees are integers in units of 1/10000 degree, kilometres in units *)
(*    of 0.1 km, minutes in units of 1/300 minute (so that km * 1.1 and    *)
(*    seconds / 60 are both exact), sleep times in units of 0.1 s.         *)
(*  - The two remote services answer as their HTTP APIs document: a JSON   *)
(*    body on HTTP 200; which answer comes, and whether the transport      *)
(*    raises, is chosen by the environment.                                *)
(***************************************************************************)
EXTENDS Integers, Sequences, FiniteSets, TLC

VARIABLES
    mode,                   \* radio: "text" (Woonplaats / postcode) or "coords"
    plaats,                 \* text_input Woonplaats
    postcode,               \* text_input Postcode
    lat_str,                \* text_input Latitude
    lon_str,                \* text_input Longitude
    fallback_to_haversine,  \* checkbox
    pc,                     \* position of the script: idle, geocode, safe_get, ...
    query,                  \* the geocoding query of this run
    cand_ll,                \* None or (clat, clon)
    dest,                   \* index into LOCATIONS_LL of the leg being routed
    results,                \* list of (name, km, minutes, kind)
    route_failures,
    ok_results,
    outcome,                \* what the run rendered: none, warning, not_found, ...
    geo_cache,              \* st.cache_data store of geocode_city
    route_cache,            \* st.cache_data store of route_osrm_km_minutes
    url, retries, backoff, i, r, caller,   \* frame of the running safe_get call
    trace,                  \* the requests.get and time.sleep calls of that call
    gets,                   \* number of requests.get calls of this run, per service
    calls,                  \* this run's calls of the two clients, in order
    returned,               \* session history: what each client call returned
    runs                    \* number of button presses so far

vars == <<mode, plaats, postcode, lat_str, lon_str, fallback_to_haversine, pc,
          query, cand_ll, dest, results, route_failures, ok_results, outcome,
          geo_cache, route_cache, url, retries, backoff, i, r, caller, trace,
          gets, calls, returned, runs>>

widgets == <<mode, plaats, postcode, lat_str, lon_str, fallback_to_haversine>>
frame == <<url, retries, backoff, i, r, caller, trace>>
report == <<results, route_failures, ok_results, outcome>>
caches == <<geo_cache, route_cache>>

\* ------------------------------------------------------------------ bounds
MaxRuns == 2
MaxRetries == 4

\* ------------------------------------------------------------- Python None
None == << >>
Some(v) == <<v>>

\* ------------------------------------------------------------------- text
Digits == {"0", "1", "2", "3", "4", "5", "6", "7", "8", "9"}

DigitVal(c) ==
    CASE c = "0" -> 0 [] c = "1" -> 1 [] c = "2" -> 2 [] c = "3" -> 3
      [] c = "4" -> 4 [] c = "5" -> 5 [] c = "6" -> 6 [] c = "7" -> 7
      [] c = "8" -> 8 [] c = "9" -> 9

RECURSIVE LStrip(_)
LStrip(s) == IF s # << >> /\ Head(s) = " " THEN LStrip(Tail(s)) ELSE s

RECURSIVE RStrip(_)
RStrip(s) ==
    IF s # << >> /\ s[Len(s)] = " " THEN RStrip(SubSeq(s, 1, Len(s) - 1)) ELSE s

\* str.strip()
Strip(s) == RStrip(LStrip(s))

\* str.replace(",", ".")
ReplaceComma(s) == [k \in 1..Len(s) |-> IF s[k] = "," THEN "." ELSE s[k]]

RECURSIVE Join(_, _)
\* sep.join(parts)
Join(parts, sep) ==
    IF parts = << >> THEN << >>
    ELSE IF Len(parts) = 1 THEN parts[1]
    ELSE parts[1] \o sep \o Join(Tail(parts), sep)

\* [p for p in parts if p]
NonEmpty(parts) == SelectSeq(parts, LAMBDA p : p # << >>)

\* ------------------------------------------------------------------ float
RECURSIVE NatOf(_)
NatOf(ds) ==
    IF ds = << >> THEN 0
    ELSE NatOf(SubSeq(ds, 1, Len(ds) - 1)) * 10 + DigitVal(ds[Len(ds)])

AllDigits(ds) == \A k \in 1..Len(ds) : ds[k] \in Digits

\* the fraction digits as a number of 1/10000: "028" -> 280
FracOf(ds) ==
    LET padded == [k \in 1..4 |-> IF k <= Len(ds) THEN ds[k] ELSE "0"]
    IN  NatOf(padded)

\* float(s): None stands for ValueError, Some(v) for the value in 1/10000.
\* The decimal forms [sign] digits [. digits] and [sign] . digits, surrounding
\* blanks ignored; decimals beyond the fourth are below the unit.
Float(s) ==
    LET t == Strip(s)
        signed == t # << >> /\ Head(t) \in {"-", "+"}
        sign == IF signed /\ Head(t) = "-" THEN -1 ELSE 1
        body == IF signed THEN Tail(t) ELSE t
        dots == {k \in 1..Len(body) : body[k] = "."}
        dot == IF dots = {} THEN Len(body) + 1 ELSE CHOOSE k \in dots : TRUE
        whole == SubSeq(body, 1, dot - 1)
        frac == SubSeq(body, dot + 1, Len(body))
    IN  IF /\ Cardinality(dots) <= 1
           /\ AllDigits(whole) /\ AllDigits(frac)
           /\ Len(whole) + Len(frac) >= 1
        THEN Some(sign * (NatOf(whole) * 10000 + FracOf(frac)))
        ELSE None

\* ------------------------------------------------------- fixed locations
\* LOCATIONS_LL, in insertion order: name, (lat, lon)
LOCATIONS_LL ==
    << <<"Vianen", <<519919, 50912>> >>,
       <<"Amersfoort", <<521561, 53878>> >>,
       <<"Woerden", <<520867, 48833>> >> >>

NumLocations == Len(LOCATIONS_LL)

\* haversine_km(lat1, lon1, lat2, lon2), in 0.1 km: the function's values,
\* rounded to the unit, at the origins the inputs below can produce.
haversine_km(lat1, lon1, lat2, lon2) ==
    CASE <<lat1, lon1, lat2, lon2>> = <<520280, 51680, 519919, 50912>> -> 66
      [] <<lat1, lon1, lat2, lon2>> = <<520280, 51680, 521561, 53878>> -> 207
      [] <<lat1, lon1, lat2, lon2>> = <<520280, 51680, 520867, 48833>> -> 205
      [] <<lat1, lon1, lat2, lon2>> = <<2000000, 51680, 519919, 50912>> -> 164577
      [] <<lat1, lon1, lat2, lon2>> = <<2000000, 51680, 521561, 53878>> -> 164394
      [] <<lat1, lon1, lat2, lon2>> = <<2000000, 51680, 520867, 48833>> -> 164471

\* -------------------------------------------------------- remote services
\* What requests.get can return from Nominatim: a match, no match, an error
\* status. lat and lon come as text.
GeoResponses ==
    { [status |-> 200, code |-> "", routes |-> << >>,
       data |-> << [lat |-> <<"5", "2", ".", "0", "2", "8">>,
                    lon |-> <<"5", ".", "1", "6", "8">>] >>],
      [status |-> 200, code |-> "", routes |-> << >>, data |-> << >>],
      [status |-> 500, code |-> "", routes |-> << >>, data |-> << >>] }

\* the route OSRM knows to a location: metres, seconds
RouteAnswer(to_lat, to_lon) ==
    CASE <<to_lat, to_lon>> = <<519919, 50912>> ->
             [distance |-> 9000, duration |-> 1500]
      [] <<to_lat, to_lon>> = <<521561, 53878>> ->
             [distance |-> 28000, duration |-> 1080]
      [] <<to_lat, to_lon>> = <<520867, 48833>> ->
             [distance |-> 21000, duration |-> 1080]

\* What requests.get can return from OSRM for from_lon,from_lat;to_lon,to_lat:
\* the route, no route, an error status; a coordinate that is none is
\* refused with status 400.
RouteResponses(k) ==
    IF k[2] \in -900000..900000 /\ k[1] \in -1800000..1800000
    THEN { [status |-> 200, code |-> "Ok", data |-> << >>,
            routes |-> <<RouteAnswer(k[4], k[3])>>],
           [status |-> 200, code |-> "NoRoute", data |-> << >>,
            routes |-> << >>],
           [status |-> 500, code |-> "", data |-> << >>, routes |-> << >>] }
    ELSE { [status |-> 400, code |-> "InvalidQuery", data |-> << >>,
            routes |-> << >>] }

Responses(u) ==
    IF u.svc = "nominatim" THEN GeoResponses ELSE RouteResponses(u.key)

\* --------------------------------------------------------------- safe_get
GetEvent(ok) == [ev |-> "get", ok |-> ok, secs |-> 0]
SleepEvent(d) == [ev |-> "sleep", ok |-> FALSE, secs |-> d]

\* mutant: a constant pause instead of the linear backoff
SleepAfter_Constant(b, k) == b

\* time.sleep(backoff * (i + 1)) in the except branch
SleepAfter(b, k) == b * (k + 1)

\* mutant: one iteration too many, range(retries + 1)
InRange_OffByOne(k, n) == k <= n

\* whether the loop of safe_get runs iteration k: for i in range(retries)
InRange(k, n) == k < n

\* the entry of safe_get: last_err = None, the loop starts at i = 0
EnterSafeGet(u, n, b, back) ==
    /\ url' = u
    /\ retries' = n
    /\ backoff' = b
    /\ i' = 0
    /\ r' = None
    /\ trace' = << >>
    /\ caller' = back
    /\ pc' = "safe_get"

\* requests.get returns a response: safe_get returns it, whatever its status
SafeGetReturns ==
    /\ pc = "safe_get"
    /\ InRange(i, retries)
    /\ \E resp \in Responses(url) : r' = Some(resp)
    /\ trace' = Append(trace, GetEvent(TRUE))
    /\ gets' = [gets EXCEPT ![url.svc] = @ + 1]
    /\ pc' = caller
    /\ UNCHANGED <<url, retries, backoff, i, caller>>
    /\ UNCHANGED <<widgets, query, cand_ll, dest, report, caches, calls,
                   returned, runs>>

\* requests.get raises a RequestException: sleep, then the next iteration
SafeGetRaises ==
    /\ pc = "safe_get"
    /\ InRange(i, retries)
    /\ trace' = trace \o <<GetEvent(FALSE), SleepEvent(SleepAfter(backoff, i))>>
    /\ gets' = [gets EXCEPT ![url.svc] = @ + 1]
    /\ i' = i + 1
    /\ UNCHANGED <<url, retries, backoff, r, caller, pc>>
    /\ UNCHANGED <<widgets, query, cand_ll, dest, report, caches, calls,
                   returned, runs>>

\* range(retries) is exhausted: return None
SafeGetExhausted ==
    /\ pc = "safe_get"
    /\ ~InRange(i, retries)
    /\ r' = None
    /\ pc' = caller
    /\ UNCHANGED <<url, retries, backoff, i, caller, trace, gets>>
    /\ UNCHANGED <<widgets, query, cand_ll, dest, report, caches, calls,
                   returned, runs>>

\* the frame of safe_get is gone once its caller has taken the result
NoUrl == [svc |-> "", key |-> << >>]

LeaveSafeGet ==
    /\ url' = NoUrl
    /\ retries' = 0
    /\ backoff' = 0
    /\ i' = 0
    /\ r' = None
    /\ trace' = << >>
    /\ caller' = ""

\* ---------------------------------------------------------- cached clients
\* one finished call of a client: what it returned, whether it made a
\* request, and what earlier calls with the same arguments returned this
\* session
CallRecord(fn, d, ret, fetched, before) ==
    [fn |-> fn, dest |-> d, ret |-> ret, fetched |-> fetched, before |-> before]

Before(history, key) == {h[2] : h \in {x \in history : x[1] = key}}

Fetched(tr) == \E k \in 1..Len(tr) : tr[k].ev = "get"

GeoUrl(q) == [svc |-> "nominatim", key |-> q]

\* the body of geocode_city after safe_get: (lat, lon) or None
GeocodeValue(resp) ==
    IF resp = None THEN None
    ELSE IF resp[1].status # 200 THEN None
    ELSE IF resp[1].data = << >> THEN None
    ELSE <<Float(resp[1].data[1].lat)[1], Float(resp[1].data[1].lon)[1]>>

\* mutant: the NotFound message without the st.stop() behind it
AfterGeocode_NoStop(value) ==
    /\ cand_ll' = value
    /\ outcome' = IF value = None THEN "not_found" ELSE outcome
    /\ pc' = "route"
    /\ dest' = 1
    /\ UNCHANGED <<results, route_failures, ok_results>>

\* after cand_ll = geocode_city(query): the NotFound message and st.stop(),
\* or on to the routes
AfterGeocode(value) ==
    /\ cand_ll' = value
    /\ IF value = None
       THEN /\ outcome' = "not_found"
            /\ pc' = "idle"
            /\ dest' = dest
       ELSE /\ outcome' = outcome
            /\ pc' = "route"
            /\ dest' = 1
    /\ UNCHANGED <<results, route_failures, ok_results>>

\* whether st.cache_data answers the call from its store
GeoCached(q) == q \in DOMAIN geo_cache

\* what st.cache_data stores when the body of geocode_city has returned
GeoStore(q, value) == (q :> value) @@ geo_cache

\* geocode_city(query) under st.cache_data: a stored return value is
\* returned without running the body
GeocodeCity ==
    /\ pc = "geocode"
    /\ IF GeoCached(query)
       THEN /\ calls' = Append(calls,
                   CallRecord("geocode_city", 0, geo_cache[query], FALSE,
                              Before(returned.geo, query)))
            /\ returned' = [returned EXCEPT
                   !.geo = @ \cup {<<query, geo_cache[query]>>}]
            /\ AfterGeocode(geo_cache[query])
            /\ UNCHANGED frame
       ELSE /\ EnterSafeGet(GeoUrl(query), 3, 12, "geocode_return")
            /\ UNCHANGED <<cand_ll, dest, report, calls, returned>>
    /\ UNCHANGED <<widgets, query, caches, gets, runs>>

\* the body of geocode_city returns; st.cache_data stores the return value
GeocodeCityReturn ==
    /\ pc = "geocode_return"
    /\ LET value == GeocodeValue(r) IN
          /\ geo_cache' = GeoStore(query, value)
          /\ calls' = Append(calls,
                 CallRecord("geocode_city", 0, value, Fetched(trace),
                            Before(returned.geo, query)))
          /\ returned' = [returned EXCEPT !.geo = @ \cup {<<query, value>>}]
          /\ AfterGeocode(value)
    /\ LeaveSafeGet
    /\ UNCHANGED <<widgets, query, route_cache, gets, runs>>

\* the arguments of route_osrm_km_minutes for the leg to location d
RouteArgs(d) ==
    <<cand_ll[1], cand_ll[2], LOCATIONS_LL[d][2][1], LOCATIONS_LL[d][2][2]>>

\* .../route/v1/driving/{from_lon},{from_lat};{to_lon},{to_lat}
RouteUrl(a) == [svc |-> "osrm", key |-> <<a[2], a[1], a[4], a[3]>>]

\* the body of route_osrm_km_minutes after safe_get: (km, minutes) or None
RouteValue(resp) ==
    IF resp = None \/ resp[1].status # 200 THEN None
    ELSE IF resp[1].code # "Ok" \/ resp[1].routes = << >> THEN None
    ELSE <<resp[1].routes[1].distance \div 100, resp[1].routes[1].duration * 5>>

\* mutant: the fallback estimate is used whether or not the checkbox is set
Leg_AlwaysFallback(d, routed, fallback) ==
    LET name == LOCATIONS_LL[d][1]
        km == haversine_km(cand_ll[1], cand_ll[2],
                           LOCATIONS_LL[d][2][1], LOCATIONS_LL[d][2][2])
    IN  IF routed = None
        THEN <<name, Some(km), Some(km * 33), "fallback">>
        ELSE <<name, Some(routed[1]), Some(routed[2]), "route">>

\* one iteration of the results loop after routed = route_osrm_km_minutes(...)
Leg(d, routed, fallback) ==
    LET name == LOCATIONS_LL[d][1]
        km == haversine_km(cand_ll[1], cand_ll[2],
                           LOCATIONS_LL[d][2][1], LOCATIONS_LL[d][2][2])
    IN  IF routed = None
        THEN IF fallback
             THEN <<name, Some(km), Some(km * 33), "fallback">>
             ELSE <<name, None, None, "failed">>
        ELSE <<name, Some(routed[1]), Some(routed[2]), "route">>

\* mutant: the loop ends one location early
NextPc_SkipsLast(d) == IF d < NumLocations - 1 THEN "route" ELSE "rank"

\* the loop goes on to the next location, or ends
NextPc(d) == IF d < NumLocations THEN "route" ELSE "rank"

AfterRoute(routed) ==
    /\ results' = Append(results, Leg(dest, routed, fallback_to_haversine))
    /\ route_failures' = IF routed = None THEN route_failures + 1
                         ELSE route_failures
    /\ dest' = dest + 1
    /\ pc' = NextPc(dest)
    /\ UNCHANGED <<cand_ll, ok_results, outcome>>

RouteCached(a) == a \in DOMAIN route_cache

RouteStore(a, value) == (a :> value) @@ route_cache

\* route_osrm_km_minutes(clat, clon, lat, lon) under st.cache_data
RouteOsrm ==
    /\ pc = "route"
    /\ LET a == RouteArgs(dest) IN
       IF RouteCached(a)
       THEN /\ calls' = Append(calls,
                   CallRecord("route_osrm_km_minutes", dest, route_cache[a],
                              FALSE, Before(returned.route, a)))
            /\ returned' = [returned EXCEPT
                   !.route = @ \cup {<<a, route_cache[a]>>}]
            /\ AfterRoute(route_cache[a])
            /\ UNCHANGED frame
       ELSE /\ EnterSafeGet(RouteUrl(a), 3, 10, "route_return")
            /\ UNCHANGED <<cand_ll, dest, report, calls, returned>>
    /\ UNCHANGED <<widgets, query, caches, gets, runs>>

\* the body of route_osrm_km_minutes returns; st.cache_data stores the value
RouteOsrmReturn ==
    /\ pc = "route_return"
    /\ LET a == RouteArgs(dest)
           value == RouteValue(r)
       IN /\ route_cache' = RouteStore(a, value)
          /\ calls' = Append(calls,
                 CallRecord("route_osrm_km_minutes", dest, value,
                            Fetched(trace), Before(returned.route, a)))
          /\ returned' = [returned EXCEPT !.route = @ \cup {<<a, value>>}]
          /\ AfterRoute(value)
    /\ LeaveSafeGet
    /\ UNCHANGED <<widgets, query, geo_cache, gets, runs>>

\* ---------------------------------------------------------------- ranking
\* mutant: only routed legs pass the filter
OkResults_RoutedOnly(rs) == SelectSeq(rs, LAMBDA leg : leg[4] = "route")

\* [r for r in results if r[1] is not None]
OkResults(rs) == SelectSeq(rs, LAMBDA leg : leg[2] # None)

\* x[2], the sort key
Minutes(leg) == leg[3][1]

RECURSIVE InsertByMinutes(_, _)
\* put leg behind every entry whose key is not greater
InsertByMinutes(sorted, leg) ==
    IF sorted = << >> THEN <<leg>>
    ELSE IF Minutes(leg) < Minutes(Head(sorted))
         THEN <<leg>> \o sorted
         ELSE <<Head(sorted)>> \o InsertByMinutes(Tail(sorted), leg)

RECURSIVE InsertByKm(_, _)
InsertByKm(sorted, leg) ==
    IF sorted = << >> THEN <<leg>>
    ELSE IF leg[2][1] < Head(sorted)[2][1]
         THEN <<leg>> \o sorted
         ELSE <<Head(sorted)>> \o InsertByKm(Tail(sorted), leg)

RECURSIVE SortByMinutes_ByKm(_)
\* mutant: the list is sorted on x[1], the distance
SortByMinutes_ByKm(rs) ==
    IF rs = << >> THEN << >>
    ELSE InsertByKm(SortByMinutes_ByKm(SubSeq(rs, 1, Len(rs) - 1)), rs[Len(rs)])

RECURSIVE SortByMinutes(_)
\* list.sort(key=lambda x: x[2]): ascending and stable
SortByMinutes(rs) ==
    IF rs = << >> THEN << >>
    ELSE InsertByMinutes(SortByMinutes(SubSeq(rs, 1, Len(rs) - 1)), rs[Len(rs)])

\* after the loop: filter, the "no routes" error and st.stop(), or sort
\* and render
Rank ==
    /\ pc = "rank"
    /\ IF OkResults(results) = << >>
       THEN /\ ok_results' = << >>
            /\ outcome' = "all_unavailable"
       ELSE /\ ok_results' = SortByMinutes(OkResults(results))
            /\ outcome' = "shown"
    /\ pc' = "idle"
    /\ UNCHANGED <<widgets, query, cand_ll, dest, results, route_failures,
                   caches, frame, gets, calls, returned, runs>>

\* ----------------------------------------------------------------- button
Houten == <<"H", "o", "u", "t", "e", "n">>
Netherlands == <<"N", "e", "t", "h", "e", "r", "l", "a", "n", "d", "s">>

PlaatsInputs == {<< >>, <<" ">>, Houten}
PostcodeInputs == {<< >>, <<"3", "9", "9", "2">>}
LatInputs == { <<"5", "2", ".", "0", "2", "8">>,
               <<" ", "5", "2", ",", "0", "2", "8", " ">>,
               <<"2", "0", "0">>,
               <<"x">> }
LonInputs == { <<"5", ".", "1", "6", "8">>, << >> }

NoGets == [nominatim |-> 0, osrm |-> 0]

\* what a rerun of the script starts from
FreshRun ==
    /\ results' = << >>
    /\ route_failures' = 0
    /\ ok_results' = << >>
    /\ gets' = NoGets
    /\ calls' = << >>
    /\ runs' = runs + 1
    /\ UNCHANGED frame

\* ", ".join([p for p in [postcode.strip(), plaats.strip(), "Netherlands"] if p])
Query(p, c) == Join(NonEmpty(<<Strip(c), Strip(p), Netherlands>>), <<",", " ">>)

\* the button is pressed in mode "Woonplaats / postcode"
ClickText ==
    /\ pc = "idle"
    /\ runs < MaxRuns
    /\ \E p \in PlaatsInputs, c \in PostcodeInputs, f \in BOOLEAN :
          /\ mode' = "text"
          /\ plaats' = p
          /\ postcode' = c
          /\ fallback_to_haversine' = f
          /\ IF Strip(p) = << >> /\ Strip(c) = << >>
             THEN /\ outcome' = "warning"
                  /\ query' = << >>
                  /\ pc' = "idle"
             ELSE /\ outcome' = "none"
                  /\ query' = Query(p, c)
                  /\ pc' = "geocode"
    /\ cand_ll' = None
    /\ dest' = 0
    /\ FreshRun
    /\ UNCHANGED <<lat_str, lon_str, caches, returned>>

\* the try block of the coordinates branch: (clat, clon), or None when
\* float raises
ParseCoords(la, lo) ==
    LET clat == Float(ReplaceComma(Strip(la)))
        clon == Float(ReplaceComma(Strip(lo)))
    IN  IF clat = None \/ clon = None THEN None ELSE <<clat[1], clon[1]>>

\* the button is pressed in mode "Coordinaten (lat/lon)"
ClickCoords ==
    /\ pc = "idle"
    /\ runs < MaxRuns
    /\ \E la \in LatInputs, lo \in LonInputs, f \in BOOLEAN :
          /\ mode' = "coords"
          /\ lat_str' = la
          /\ lon_str' = lo
          /\ fallback_to_haversine' = f
          /\ cand_ll' = ParseCoords(la, lo)
          /\ IF ParseCoords(la, lo) = None
             THEN /\ outcome' = "invalid_coords"
                  /\ dest' = 0
                  /\ pc' = "idle"
             ELSE /\ outcome' = "none"
                  /\ dest' = 1
                  /\ pc' = "route"
    /\ query' = << >>
    /\ FreshRun
    /\ UNCHANGED <<plaats, postcode, caches, returned>>

\* ------------------------------------------------------------------ session
Init ==
    /\ mode = "text"
    /\ plaats = << >>
    /\ postcode = << >>
    /\ lat_str = << >>
    /\ lon_str = << >>
    /\ fallback_to_haversine = TRUE
    /\ pc = "idle"
    /\ query = << >>
    /\ cand_ll = None
    /\ dest = 0
    /\ results = << >>
    /\ route_failures = 0
    /\ ok_results = << >>
    /\ outcome = "none"
    /\ geo_cache = << >>
    /\ route_cache = << >>
    /\ url = NoUrl
    /\ retries = 0
    /\ backoff = 0
    /\ i = 0
    /\ r = None
    /\ caller = ""
    /\ trace = << >>
    /\ gets = NoGets
    /\ calls = << >>
    /\ returned = [geo |-> {}, route |-> {}]
    /\ runs = 0

Next ==
    \/ ClickText
    \/ ClickCoords
    \/ GeocodeCity
    \/ GeocodeCityReturn
    \/ RouteOsrm
    \/ RouteOsrmReturn
    \/ SafeGetReturns
    \/ SafeGetRaises
    \/ SafeGetExhausted
    \/ Rank

Spec == Init /\ [][Next]_vars

\* ------------------------------------------------- safe_get called alone
\* one call safe_get(url, retries=n, backoff=b), for every n >= 1
SafeGetInit ==
    /\ mode = "text"
    /\ plaats = << >>
    /\ postcode = << >>
    /\ lat_str = << >>
    /\ lon_str = << >>
    /\ fallback_to_haversine = TRUE
    /\ pc = "safe_get"
    /\ query = << >>
    /\ cand_ll = None
    /\ dest = 0
    /\ results = << >>
    /\ route_failures = 0
    /\ ok_results = << >>
    /\ outcome = "none"
    /\ geo_cache = << >>
    /\ route_cache = << >>
    /\ url \in {GeoUrl(Query(Houten, << >>)),
                RouteUrl(<<520280, 51680, 519919, 50912>>)}
    /\ retries \in 1..MaxRetries
    /\ backoff \in {10, 12}
    /\ i = 0
    /\ r = None
    /\ caller = "returned"
    /\ trace = << >>
    /\ gets = NoGets
    /\ calls = << >>
    /\ returned = [geo |-> {}, route |-> {}]
    /\ runs = 0

SafeGetNext ==
    \/ SafeGetReturns
    \/ SafeGetRaises
    \/ SafeGetExhausted

SafeGetSpec == SafeGetInit /\ [][SafeGetNext]_vars

\* requests.get returns or raises within its timeout and time.sleep ends, so
\* a call that can take a step takes one
SafeGetFairSpec == SafeGetSpec /\ WF_vars(SafeGetNext)

\* ================================================================ claims
\* safe_get has returned to its caller and its result r is not yet consumed
SafeGetDone == pc \in {"geocode_return", "route_return", "returned"}

GetsOf(tr) == {k \in 1..Len(tr) : tr[k].ev = "get"}
SleepsOf(tr) == {k \in 1..Len(tr) : tr[k].ev = "sleep"}
Attempts(tr) == Cardinality(GetsOf(tr))
Raised(tr) == Cardinality({k \in GetsOf(tr) : ~tr[k].ok})

\* what the attempts of the running or returned call look like
C1_Attempts ==
    (pc = "safe_get" \/ SafeGetDone) =>
        /\ Attempts(trace) <= retries
        /\ i <= retries
        /\ Raised(trace) = i
        /\ \A k \in GetsOf(trace) :
              trace[k].ok => (k = Len(trace) /\ SafeGetDone /\ r # None)
        /\ SafeGetDone =>
              /\ (r = None) <=> (Raised(trace) = retries
                                  /\ Attempts(trace) = retries)
              /\ (r # None) <=> (Attempts(trace) = Raised(trace) + 1
                                  /\ trace[Len(trace)].ev = "get"
                                  /\ trace[Len(trace)].ok)
              /\ r # None => r[1] \in Responses(url)

\* C1: for every retries >= 1 and every pattern of per-attempt outcomes,
\* safe_get makes at most `retries` attempts, stops at the first attempt that
\* does not raise and returns that response whatever its HTTP status, and
\* returns None if and only if every one of the `retries` attempts raised;
\* every call returns (it never loops forever).
C1_BoundedRetry == []C1_Attempts /\ <>SafeGetDone

\* a call that failed twice and then got an HTTP 500 answer, which it returns
C1_Witness ==
    /\ SafeGetDone
    /\ retries = 3
    /\ Raised(trace) = 2
    /\ Attempts(trace) = 3
    /\ r # None
    /\ r[1].status = 500

\* every attempt of the call was answered, and with HTTP 500
AllAnswered500 ==
    /\ Raised(trace) = 0
    /\ r # None
    /\ r[1].status = 500

\* C2 as stated: when the service answers HTTP 500 on every request,
\* safe_get with retries=3 performs exactly 3 attempts, sleeps before
\* attempt 2 and before attempt 3, and returns None.
C2_Http500ThreeAttempts ==
    (SafeGetDone /\ retries = 3 /\ AllAnswered500) =>
        /\ Attempts(trace) = 3
        /\ r = None

\* C2 amended: when every request raises a request exception, safe_get with
\* retries=3 performs exactly 3 attempts, sleeps backoff * 1 before attempt
\* 2 and backoff * 2 before attempt 3, and returns None; an HTTP 500 answer
\* is returned from the attempt that got it, and ends the call.
C2_RaisingThreeAttempts ==
    (SafeGetDone /\ retries = 3) =>
        /\ Raised(trace) = Attempts(trace) =>
              /\ Attempts(trace) = 3
              /\ GetsOf(trace) = {1, 3, 5}
              /\ trace[2] = SleepEvent(backoff * 1)
              /\ trace[4] = SleepEvent(backoff * 2)
              /\ r = None
        /\ AllAnswered500 => (Attempts(trace) = 1 /\ SleepsOf(trace) = {})

\* three raising attempts of a call with retries=3, and None returned
C2_Witness ==
    /\ SafeGetDone
    /\ retries = 3
    /\ Raised(trace) = 3
    /\ Attempts(trace) = 3
    /\ r = None

\* C3: safe_get sleeps only between attempts: a call in which all N
\* attempts fail performs exactly N-1 sleeps, and no sleep follows the last
\* attempt or a successful attempt.
C3_SleepOnlyBetweenAttempts ==
    SafeGetDone =>
        /\ trace # << >> => trace[Len(trace)].ev = "get"
        /\ Raised(trace) = retries =>
              Cardinality(SleepsOf(trace)) = retries - 1

\* this run's calls of route_osrm_km_minutes, and of geocode_city
RouteCalls == SelectSeq(calls, LAMBDA c : c.fn = "route_osrm_km_minutes")
GeoCalls == SelectSeq(calls, LAMBDA c : c.fn = "geocode_city")

\* C4: only successful results are cached: after geocode_city or
\* route_osrm_km_minutes has returned None for an input, a later call with
\* the same input contacts the service again; after a successful result, a
\* later call with the identical input returns the same value without any
\* HTTP attempt.
C4_OnlySuccessCached ==
    \A k \in 1..Len(calls) :
        /\ None \in calls[k].before => calls[k].fetched
        /\ (calls[k].before # {} /\ None \notin calls[k].before) =>
              (~calls[k].fetched /\ calls[k].ret \in calls[k].before)

\* C5: every leg of the results loop: "failed" has neither distance nor
\* duration, "route" and "fallback" have both; a leg is "route" iff routing
\* succeeded, "fallback" iff it failed with fallback enabled, "failed" iff
\* it failed with fallback disabled.
C5_LegInvariant ==
    /\ Len(results) = Len(RouteCalls)
    /\ \A k \in 1..Len(results) :
          LET leg == results[k]
              routed == RouteCalls[k].ret
          IN  /\ leg[1] = LOCATIONS_LL[k][1]
              /\ RouteCalls[k].dest = k
              /\ leg[4] \in {"route", "fallback", "failed"}
              /\ leg[4] = "failed" => (leg[2] = None /\ leg[3] = None)
              /\ leg[4] \in {"route", "fallback"} =>
                    (leg[2] # None /\ leg[3] # None)
              /\ leg[4] = "route" <=> routed # None
              /\ leg[4] = "fallback" <=>
                    (routed = None /\ fallback_to_haversine)
              /\ leg[4] = "failed" <=>
                    (routed = None /\ ~fallback_to_haversine)

\* a finished loop with a routed and a failed leg
C5_Witness ==
    /\ Len(results) = NumLocations
    /\ \E k \in 1..Len(results) : results[k][4] = "route"
    /\ \E k \in 1..Len(results) : results[k][4] = "failed"

\* a finished loop with a fallback leg beside a routed one
C5_WitnessFallback ==
    /\ Len(results) = NumLocations
    /\ \E k \in 1..Len(results) : results[k][4] = "route"
    /\ \E k \in 1..Len(results) : results[k][4] = "fallback"

\* the run went through the ranking and rendered the list
RunShown == pc = "idle" /\ outcome = "shown"

\* the run went through the ranking
RunRanked == pc = "idle" /\ outcome \in {"shown", "all_unavailable"}

Kept == {k \in 1..Len(results) : results[k][4] # "failed"}

PosInResults(leg) == CHOOSE k \in 1..Len(results) : results[k] = leg

\* C6: the displayed list holds exactly the legs that are not failed,
\* ascending by minutes, legs of equal minutes in the order of the
\* locations; the best match, its first element, has minimal minutes.
C6_SortedStable ==
    RunShown =>
        /\ Len(ok_results) = Cardinality(Kept)
        /\ \A k \in Kept : \E j \in 1..Len(ok_results) : ok_results[j] = results[k]
        /\ \A j \in 1..Len(ok_results) :
              \E k \in Kept : ok_results[j] = results[k]
        /\ \A a, b \in 1..Len(ok_results) :
              a < b =>
                 /\ ok_results[a][3][1] <= ok_results[b][3][1]
                 /\ ok_results[a][3][1] = ok_results[b][3][1] =>
                       PosInResults(ok_results[a]) < PosInResults(ok_results[b])
        /\ ok_results # << >>
        /\ \A k \in Kept : ok_results[1][3][1] <= results[k][3][1]

\* three routed legs: Amersfoort and Woerden tie and keep their order,
\* Vianen, first in the loop, is displayed last
C6_Witness ==
    /\ RunShown
    /\ Len(ok_results) = 3
    /\ ok_results[1][1] = "Amersfoort"
    /\ ok_results[2][1] = "Woerden"
    /\ ok_results[3][1] = "Vianen"
    /\ ok_results[1][3] = ok_results[2][3]

\* a failed leg is left out of the displayed list
C6_WitnessDropped ==
    /\ RunShown
    /\ Len(ok_results) < Len(results)

\* C7: the "no routes" error is rendered, and no list, exactly when every
\* leg is failed, which is when fallback is disabled and routing fails for
\* all three locations; with fallback enabled it is never rendered and the
\* list has one entry per location.
C7_AllUnavailable ==
    /\ outcome = "all_unavailable" => RunRanked
    /\ RunRanked =>
          /\ Len(results) = NumLocations
          /\ Len(RouteCalls) = NumLocations
          /\ outcome = "all_unavailable" <=>
                \A k \in 1..Len(results) : results[k][4] = "failed"
          /\ outcome = "all_unavailable" <=>
                /\ ~fallback_to_haversine
                /\ \A k \in 1..NumLocations : RouteCalls[k].ret = None
          /\ outcome = "all_unavailable" => ok_results = << >>
          /\ fallback_to_haversine =>
                (outcome = "shown" /\ Len(ok_results) = NumLocations)

\* fallback disabled and the three routes failed
C7_Witness ==
    /\ RunRanked
    /\ outcome = "all_unavailable"
    /\ ~fallback_to_haversine

\* fallback enabled and the three routes failed: the list has three entries
C7_WitnessFallback ==
    /\ RunRanked
    /\ fallback_to_haversine
    /\ \A k \in 1..NumLocations : RouteCalls[k].ret = None
    /\ Len(ok_results) = NumLocations

\* geocode_city returned None in this run
GeoNotFound ==
    \E k \in 1..Len(calls) :
        calls[k].fn = "geocode_city" /\ calls[k].ret = None

\* what geocode_city gets from safe_get is a transport failure, a status
\* other than 200, or an empty array
GeoFailure(resp) ==
    \/ resp = None
    \/ resp[1].status # 200
    \/ resp[1].data = << >>

\* C8: for text input, when geocoding yields NotFound (empty array, status
\* other than 200, or transport failure on all retries) the run halts with
\* the NotFound message and issues no routing request.
C8_NotFoundHalts ==
    /\ [](GeoNotFound =>
             /\ mode = "text"
             /\ outcome = "not_found"
             /\ pc = "idle"
             /\ gets.osrm = 0
             /\ RouteCalls = << >>
             /\ results = << >>)
    /\ [][(pc = "geocode_return" /\ GeoFailure(r)) =>
             (GeoNotFound' /\ outcome' = "not_found" /\ pc' = "idle")]_vars

\* the geocoder was asked three times without an answer, and the run halted
C8_Witness ==
    /\ GeoNotFound
    /\ gets.nominatim = 3
    /\ outcome = "not_found"
    /\ pc = "idle"

\* the two texts name a Coordinate: latitude in [-90, 90], longitude in
\* [-180, 180]
ValidCoordinate(la, lo) ==
    LET c == ParseCoords(la, lo)
    IN  /\ c # None
        /\ c[1] \in -900000..900000
        /\ c[2] \in -1800000..1800000

\* C9: in coordinate mode, latitude/longitude text that is not a valid
\* Coordinate is rejected with the validation message before any network
\* call: no routing or geocoding request is made for it.
C9_InvalidCoordinatesRejected ==
    (mode = "coords" /\ ~ValidCoordinate(lat_str, lon_str)) =>
        /\ gets = NoGets
        /\ pc = "idle" => outcome = "invalid_coords"

\* C10: within one run at most one geocode call is made and all of its
\* HTTP attempts precede every routing attempt; routing is requested once
\* per location, in the order of the locations, each call starting after
\* the previous one has returned, whether or not earlier legs failed; a run
\* makes at most 3 + 3 * 3 = 12 HTTP attempts.
C10_SequentialCalls ==
    /\ [](/\ Len(GeoCalls) <= 1
          /\ GeoCalls # << >> => calls[1].fn = "geocode_city"
          /\ \A k \in 1..Len(RouteCalls) : RouteCalls[k].dest = k
          /\ Len(RouteCalls) <= NumLocations
          /\ (pc \in {"safe_get", "route_return"} /\ url.svc = "osrm") =>
                (dest = Len(RouteCalls) + 1 /\ url = RouteUrl(RouteArgs(dest)))
          /\ (pc \in {"safe_get", "geocode_return"} /\ url.svc = "nominatim") =>
                calls = << >>
          /\ RunRanked => Len(RouteCalls) = NumLocations
          /\ gets.nominatim <= 3
          /\ gets.osrm <= 3 * Len(RouteCalls)
                          + (IF pc \in {"safe_get", "route_return"}
                                /\ url.svc = "osrm" THEN 3 ELSE 0)
          /\ gets.nominatim + gets.osrm <= 12)
    /\ [][/\ gets'.nominatim > gets.nominatim =>
                (gets.osrm = 0 /\ RouteCalls = << >>)
          /\ gets'.osrm > gets.osrm => url.svc = "osrm"]_vars

\* a run of twelve HTTP attempts whose first leg failed
C10_Witness ==
    /\ RunRanked
    /\ gets.nominatim = 3
    /\ gets.osrm = 9
    /\ RouteCalls[1].ret = None
    /\ RouteCalls[3].ret # None

====
